---- MODULE Spec2Model ----
(***************************************************************************)
(* Model of helper_scripts/analyze.py: analyze_kafka_dump (per-merchant     *)
(* revenue, holding cost, order cost, profit and results.csv) and           *)
(* create_inventory_graph (merge of orders and successful sales into        *)
(* per-merchant inventory progressions and accumulated inventory levels).   *)
(* Amounts, prices and costs are integers; Python floats are exact on them. *)
(***************************************************************************)
EXTENDS Integers, Sequences, FiniteSets, TLC

\* ---------------------------------------------------------------- bounds
MaxSales   == 2   \* longest kafka/buyOffer dump
MaxOrders  == 2   \* longest kafka/producer dump
MaxHolding == 1   \* longest kafka/holding_cost dump

\* ------------------------------------------------------------ input data
MerchantIds == {"m1", "m2"}

\* merchant_id_mapping.json maps a merchant id to a display name.
MerchantNames == [m \in MerchantIds |-> IF m = "m1" THEN "Bolt" ELSE "Acme"]

\* str ordering of the display names, smallest first.
NameOrder == <<"Acme", "Bolt">>

\* The mapping knows m1 and may or may not know m2.
Mappings == {[m \in D |-> MerchantNames[m]] : D \in {{"m1"}, MerchantIds}}

\* Timestamp strings of the dumps, in chronological order.
RawTimes == <<"2018-01-01T00:00:01.000000Z", "2018-01-01T00:00:02.500000Z">>

\* The same instants as microseconds of the day.
Micros == <<1000000, 2500000>>

HttpCodes == {200, 409}

\* (amount, price) of a buyOffer event and (amount, billing_amount) of a
\* producer event; cost of a holding_cost event.
SalePayloads  == {<<1, 3>>, <<3, 2>>}
OrderPayloads == {<<2, 5>>}
Costs == {2}

SaleEvents(times, codes) ==
    {[merchant_id |-> m, amount |-> p[1], price |-> p[2], http_code |-> c,
      timestamp |-> t] :
        m \in MerchantIds, p \in SalePayloads, c \in codes, t \in times}

OrderEvents(times) ==
    {[merchant_id |-> m, amount |-> p[1], billing_amount |-> p[2],
      timestamp |-> t] :
        m \in MerchantIds, p \in OrderPayloads, t \in times}

HoldingEvents == {[merchant_id |-> m, cost |-> c] : m \in MerchantIds, c \in Costs}

OfferEvents == {[merchant_id |-> m, http_code |-> c] : m \in MerchantIds, c \in HttpCodes}

\* kafka/addOffer and kafka/updateOffer: no offer or one offer
OfferDumps == {<<>>} \cup {<<e>> : e \in OfferEvents}

SeqsUpTo(S, n) == UNION {[1..k -> S] : k \in 0..n}

\* ----------------------------------------------------------------- state
VARIABLES
    pc,                     \* position in analyze_kafka_dump / create_inventory_graph
    found,                  \* files of the directory opened so far
    buyOffer,               \* content of kafka/buyOffer
    producer,               \* content of kafka/producer
    holding,                \* content of kafka/holding_cost as loaded
    merchant_id_mapping,
    revenue, holding_cost, order_cost,   \* defaultdict(float)
    profit,
    results_csv,            \* rows of results.csv, or NotWritten
    sales, orders,          \* locals of create_inventory_graph
    sale_index, order_index,
    inventory_progressions, \* defaultdict(list): merchant -> <<timestamp, change>>*
    progression_keys,       \* insertion order of inventory_progressions' keys
    emitted,                \* history: origin and input position of every append
    branch,                 \* history: branch of the loop body taken last
    inventory_levels,       \* merchant -> accumulated levels, as plotted
    inventory_svg,          \* inventory_levels.svg saved
    prices_svg              \* prices_reduced.svg saved

vars == <<pc, found, buyOffer, producer, holding, merchant_id_mapping,
          revenue, holding_cost, order_cost, profit, results_csv, sales, orders,
          sale_index, order_index, inventory_progressions, progression_keys,
          emitted, branch, inventory_levels, inventory_svg, prices_svg>>

dumpVars  == <<buyOffer, producer>>
aggVars   == <<revenue, holding_cost, order_cost>>
mergeVars == <<sales, orders, sale_index, order_index, inventory_progressions,
               progression_keys, emitted, branch>>
artifacts == <<results_csv, inventory_svg, prices_svg>>

NotWritten == <<>>
EmptyDict  == [x \in {} |-> 0]

\* ------------------------------------------------------------ dictionaries
\* d[k] of a defaultdict whose factory returns default.
DefaultGet(d, k, default) == IF k \in DOMAIN d THEN d[k] ELSE default

\* d[k] = v
DictSet(d, k, v) == [x \in (DOMAIN d) \cup {k} |-> IF x = k THEN v ELSE d[x]]

\* the keys a defaultdict has after every key of ks was read
Touch(d, ks, default) == [x \in (DOMAIN d) \cup ks |-> DefaultGet(d, x, default)]

Range(s) == {s[i] : i \in 1..Len(s)}

\* ------------------------------------------------------- analyze_kafka_dump
\* for event in events: d[event['merchant_id']] += value[event]
\* Variant: one running total shared by all merchants.
RECURSIVE SumRunningTotal(_, _)
SumRunningTotal(events, value) ==
    IF events = <<>> THEN EmptyDict
    ELSE LET n == Len(events)
             d == SumRunningTotal(SubSeq(events, 1, n - 1), value)
             e == events[n]
             total == IF n = 1 THEN 0 ELSE d[events[n - 1].merchant_id]
         IN  DictSet(d, e.merchant_id, total + value[e])

RECURSIVE SumByMerchant(_, _)
SumByMerchant(events, value) ==
    IF events = <<>> THEN EmptyDict
    ELSE LET n == Len(events)
             d == SumByMerchant(SubSeq(events, 1, n - 1), value)
             e == events[n]
         IN  DictSet(d, e.merchant_id, DefaultGet(d, e.merchant_id, 0) + value[e])

SaleValue(event) == event.amount * event.price

Revenue(events) == SumByMerchant(events, [e \in Range(events) |-> SaleValue(e)])

HoldingCost(events) == SumByMerchant(events, [e \in Range(events) |-> e.cost])

OrderCost(events) == SumByMerchant(events, [e \in Range(events) |-> e.billing_amount])

\* Variant: the order cost is added instead of subtracted.
ProfitAddsOrderCost(mapping, rev, hold, ord) ==
    [m \in DOMAIN mapping |->
        DefaultGet(rev, m, 0) - DefaultGet(hold, m, 0) + DefaultGet(ord, m, 0)]

Profit(mapping, rev, hold, ord) ==
    [m \in DOMAIN mapping |->
        DefaultGet(rev, m, 0) - DefaultGet(hold, m, 0) - DefaultGet(ord, m, 0)]

Rank(name) == CHOOSE i \in 1..Len(NameOrder) : NameOrder[i] = name

\* sorted(keys, key=mapping.get)
RECURSIVE SortedByName(_, _)
SortedByName(mapping, keys) ==
    IF keys = {} THEN <<>>
    ELSE LET m == CHOOSE x \in keys :
                     \A y \in keys : Rank(mapping[x]) <= Rank(mapping[y])
         IN  <<m>> \o SortedByName(mapping, keys \ {m})

Header == <<"name", "revenue", "holding_cost", "order_cost", "profit">>

\* Variant: only merchants with revenue get a row.
RowKeysWithRevenue(mapping, rev) == {m \in DOMAIN mapping : DefaultGet(rev, m, 0) # 0}

\* for merchant_id in sorted(merchant_id_mapping, ...)
RowKeys(mapping, rev) == DOMAIN mapping

ResultRows(mapping, rev, hold, ord, prof) ==
    LET keys == SortedByName(mapping, RowKeys(mapping, rev))
    IN  <<Header>> \o
        [i \in 1..Len(keys) |->
            <<mapping[keys[i]], DefaultGet(rev, keys[i], 0), DefaultGet(hold, keys[i], 0),
              DefaultGet(ord, keys[i], 0), prof[keys[i]]>>]

\* Variant: a failure removes the summary already written.
FailRollsBack == /\ pc' = "failed"
                 /\ results_csv' = NotWritten
                 /\ UNCHANGED <<inventory_svg, prices_svg>>

\* An exception leaves analyze_kafka_dump; nothing catches it and nothing
\* already written is removed.
Fail == /\ pc' = "failed"
        /\ UNCHANGED artifacts

\* open(file) of a file that is there; the directory does not change during
\* the run, so a file opened before is there.
Opens(files) == found' = found \cup files

\* open(file) raises: some file of files, not opened before, is absent.
OpenFails(files) == /\ ~(files \subseteq found)
                    /\ UNCHANGED found
                    /\ Fail

LoadMapping ==
    /\ pc = "start"
    /\ \/ OpenFails({"merchant_id_mapping.json"}) /\ UNCHANGED merchant_id_mapping
       \/ /\ Opens({"merchant_id_mapping.json"})
          /\ merchant_id_mapping' \in Mappings
          /\ pc' = "revenue"
          /\ UNCHANGED artifacts
    /\ UNCHANGED <<dumpVars, holding, aggVars, profit, mergeVars, inventory_levels>>

AggregateRevenue ==
    /\ pc = "revenue"
    /\ \/ OpenFails({"buyOffer"}) /\ UNCHANGED revenue
       \/ /\ Opens({"buyOffer"})
          /\ revenue' = Revenue(buyOffer)
          /\ pc' = "holding"
          /\ UNCHANGED artifacts
    /\ UNCHANGED <<dumpVars, holding, merchant_id_mapping, holding_cost, order_cost,
                   profit, mergeVars, inventory_levels>>

AggregateHoldingCost ==
    /\ pc = "holding"
    /\ \/ OpenFails({"holding_cost"}) /\ UNCHANGED <<holding, holding_cost>>
       \/ /\ Opens({"holding_cost"})
          /\ holding' \in SeqsUpTo(HoldingEvents, MaxHolding)
          /\ holding_cost' = HoldingCost(holding')
          /\ pc' = "order"
          /\ UNCHANGED artifacts
    /\ UNCHANGED <<dumpVars, merchant_id_mapping, revenue, order_cost, profit,
                   mergeVars, inventory_levels>>

AggregateOrderCost ==
    /\ pc = "order"
    /\ \/ OpenFails({"producer"}) /\ UNCHANGED order_cost
       \/ /\ Opens({"producer"})
          /\ order_cost' = OrderCost(producer)
          /\ pc' = "profit"
          /\ UNCHANGED artifacts
    /\ UNCHANGED <<dumpVars, holding, merchant_id_mapping, revenue, holding_cost,
                   profit, mergeVars, inventory_levels>>

ComputeProfit ==
    /\ pc = "profit"
    /\ profit' = Profit(merchant_id_mapping, revenue, holding_cost, order_cost)
    /\ revenue' = Touch(revenue, DOMAIN merchant_id_mapping, 0)
    /\ holding_cost' = Touch(holding_cost, DOMAIN merchant_id_mapping, 0)
    /\ order_cost' = Touch(order_cost, DOMAIN merchant_id_mapping, 0)
    /\ pc' = "write"
    /\ UNCHANGED <<found, dumpVars, holding, merchant_id_mapping, mergeVars,
                   inventory_levels, artifacts>>

WriteResults ==
    /\ pc = "write"
    /\ results_csv' = ResultRows(merchant_id_mapping, revenue, holding_cost, order_cost,
                                 profit)
    /\ pc' = "inventory"
    /\ UNCHANGED <<found, dumpVars, holding, merchant_id_mapping, aggVars, profit,
                   mergeVars, inventory_levels, inventory_svg, prices_svg>>

\* --------------------------------------------------- create_inventory_graph
\* datetime.strptime(s, '%Y-%m-%dT%H:%M:%S.%fZ'), as microseconds of the day
ParseTimestamp(s) == Micros[CHOOSE i \in 1..Len(RawTimes) : RawTimes[i] = s]

ConvertTimestamps(events) ==
    [i \in 1..Len(events) |-> [events[i] EXCEPT !.timestamp = ParseTimestamp(@)]]

Successful(event) == event.http_code = 200

\* Variant: no filter on http_code.
AllSales(events) == events

\* [sale for sale in sales if sale['http_code'] == 200]
RECURSIVE SuccessfulSales(_)
SuccessfulSales(events) ==
    IF events = <<>> THEN <<>>
    ELSE (IF Successful(Head(events)) THEN <<Head(events)>> ELSE <<>>)
         \o SuccessfulSales(Tail(events))

\* Variant: the loop runs until both lists are exhausted.
LoopCondOr(si, oi, nsales, norders) == si < nsales \/ oi < norders

\* while sale_index < len(sales) and order_index < len(orders)
LoopCond(si, oi, nsales, norders) == si < nsales /\ oi < norders

\* Variant: the comparison reads the key 'amount'.
OrderFirstByAmount(order, sale) == order.amount <= sale.amount

\* orders[order_index]['timestamp'] <= sales[sale_index]['timestamp']
OrderFirst(order, sale) == order.timestamp <= sale.timestamp

OrderChange(order) == <<order.timestamp, order.amount>>

SaleChange(sale) == <<sale.timestamp, -1 * sale.amount>>

\* The branch of the loop body the indices select; indices count from 0.
Branch(si, oi, ss, os) ==
    IF si >= Len(ss) THEN "orders_only"
    ELSE IF oi >= Len(os) THEN "sales_only"
    ELSE IF OrderFirst(os[oi + 1], ss[si + 1]) THEN "order_first"
    ELSE "sale_first"

\* Variant: the changes are plotted as they are.
NoAccumulate(changes) == changes

\* itertools.accumulate(changes)
RECURSIVE Accumulate(_)
Accumulate(changes) ==
    IF changes = <<>> THEN <<>>
    ELSE LET n == Len(changes)
             before == Accumulate(SubSeq(changes, 1, n - 1))
         IN  Append(before, (IF n = 1 THEN 0 ELSE before[n - 1]) + changes[n])

\* dates, inventory_changes = zip(*progression); the plotted step series
LevelSeries(progression) ==
    [dates  |-> [i \in 1..Len(progression) |-> progression[i][1]],
     levels |-> Accumulate([i \in 1..Len(progression) |-> progression[i][2]])]

LoadInventoryInputs ==
    /\ pc = "inventory"
    /\ \/ OpenFails({"buyOffer", "producer"}) /\ UNCHANGED mergeVars
       \/ /\ Opens({"buyOffer", "producer"})
          /\ sales' = ConvertTimestamps(SuccessfulSales(buyOffer))
          /\ orders' = ConvertTimestamps(producer)
          /\ sale_index' = 0
          /\ order_index' = 0
          /\ inventory_progressions' = EmptyDict
          /\ progression_keys' = <<>>
          /\ emitted' = <<>>
          /\ branch' = "none"
          /\ pc' = "merge"
          /\ UNCHANGED artifacts
    /\ UNCHANGED <<dumpVars, holding, merchant_id_mapping, aggVars, profit,
                   inventory_levels>>

MergeStep ==
    /\ pc = "merge"
    /\ LoopCond(sale_index, order_index, Len(sales), Len(orders))
    /\ LET b == Branch(sale_index, order_index, sales, orders)
           fromOrders == b \in {"orders_only", "order_first"}
           event == IF fromOrders THEN orders[order_index + 1] ELSE sales[sale_index + 1]
           change == IF fromOrders THEN OrderChange(event) ELSE SaleChange(event)
           m == event.merchant_id
       IN  /\ inventory_progressions' =
                 DictSet(inventory_progressions, m,
                         Append(DefaultGet(inventory_progressions, m, <<>>), change))
           /\ progression_keys' = IF m \in DOMAIN inventory_progressions
                                  THEN progression_keys
                                  ELSE Append(progression_keys, m)
           /\ order_index' = IF fromOrders THEN order_index + 1 ELSE order_index
           /\ sale_index' = IF fromOrders THEN sale_index ELSE sale_index + 1
           /\ emitted' = Append(emitted,
                                [origin |-> IF fromOrders THEN "order" ELSE "sale",
                                 index |-> IF fromOrders THEN order_index + 1
                                           ELSE sale_index + 1,
                                 merchant_id |-> m, timestamp |-> change[1],
                                 delta |-> change[2]])
           /\ branch' = b
    /\ UNCHANGED <<pc, found, dumpVars, holding, merchant_id_mapping, aggVars, profit,
                   sales, orders, inventory_levels, artifacts>>

\* The merchants the plotting loop reaches: all of them, or those up to and
\* including the first one merchant_id_mapping[merchant_id] fails on.
Plotted(keys, mapping) ==
    LET bad == {i \in 1..Len(keys) : keys[i] \notin DOMAIN mapping}
        last == IF bad = {} THEN Len(keys)
                ELSE CHOOSE i \in bad : \A j \in bad : i <= j
    IN  {keys[i] : i \in 1..last}

PlotInventory ==
    /\ pc = "merge"
    /\ ~LoopCond(sale_index, order_index, Len(sales), Len(orders))
    /\ inventory_levels' =
           [m \in Plotted(progression_keys, merchant_id_mapping) |->
               LevelSeries(inventory_progressions[m])]
    /\ IF \E m \in DOMAIN inventory_progressions : m \notin DOMAIN merchant_id_mapping
       THEN Fail
       ELSE /\ inventory_svg' = TRUE
            /\ pc' = "prices"
            /\ UNCHANGED <<results_csv, prices_svg>>
    /\ UNCHANGED <<found, dumpVars, holding, merchant_id_mapping, aggVars, profit,
                   mergeVars>>

\* ----------------------------------------------- create_price_graph_reduced
CreatePriceGraphReduced ==
    /\ pc = "prices"
    /\ \/ OpenFails({"addOffer", "updateOffer"})
       \/ /\ Opens({"addOffer", "updateOffer"})
          /\ \E addOffer, updateOffer \in OfferDumps :
               LET offer_updates == SuccessfulSales(addOffer \o updateOffer)
               IN  IF \E i \in 1..Len(offer_updates) :
                         offer_updates[i].merchant_id \notin DOMAIN merchant_id_mapping
                   THEN Fail
                   ELSE /\ prices_svg' = TRUE
                        /\ pc' = "done"
                        /\ UNCHANGED <<results_csv, inventory_svg>>
    /\ UNCHANGED <<dumpVars, holding, merchant_id_mapping, aggVars, profit, mergeVars,
                   inventory_levels>>

\* ------------------------------------------------------------ specification
\* The events of the dumps analyze_kafka_dump is run on: a sale of one item,
\* successful or not, at the first instant; a successful sale of three items
\* and every order at the second.
DumpSaleEvents ==
    {e \in SaleEvents(Range(RawTimes), HttpCodes) :
        /\ (e.amount = 1) <=> (e.timestamp = RawTimes[1])
        /\ (e.amount = 1) \/ Successful(e)}

DumpOrderEvents == OrderEvents({RawTimes[2]})

\* The events of the dumps create_inventory_graph is run on: successful
\* sales and orders at any instant.
MergeSaleEvents == SaleEvents(Range(RawTimes), {200})

MergeOrderEvents == OrderEvents(Range(RawTimes))

Init ==
    /\ pc = "start"
    /\ found = {}
    /\ buyOffer \in SeqsUpTo(DumpSaleEvents, MaxSales)
    /\ producer \in SeqsUpTo(DumpOrderEvents, MaxOrders)
    /\ holding = <<>>
    /\ merchant_id_mapping = EmptyDict
    /\ revenue = EmptyDict
    /\ holding_cost = EmptyDict
    /\ order_cost = EmptyDict
    /\ profit = EmptyDict
    /\ results_csv = NotWritten
    /\ sales = <<>>
    /\ orders = <<>>
    /\ sale_index = 0
    /\ order_index = 0
    /\ inventory_progressions = EmptyDict
    /\ progression_keys = <<>>
    /\ emitted = <<>>
    /\ branch = "none"
    /\ inventory_levels = EmptyDict
    /\ inventory_svg = FALSE
    /\ prices_svg = FALSE

Next ==
    \/ LoadMapping
    \/ AggregateRevenue
    \/ AggregateHoldingCost
    \/ AggregateOrderCost
    \/ ComputeProfit
    \/ WriteResults
    \/ LoadInventoryInputs
    \/ MergeStep
    \/ PlotInventory
    \/ CreatePriceGraphReduced

Spec == Init /\ [][Next]_vars

\* create_inventory_graph alone, called as analyze_kafka_dump calls it: the
\* summary of the dump is written and the dump may hold any timestamps.
InitMerge ==
    /\ pc = "inventory"
    /\ found = {"merchant_id_mapping.json", "buyOffer", "holding_cost", "producer"}
    /\ buyOffer \in SeqsUpTo(MergeSaleEvents, MaxSales)
    /\ producer \in SeqsUpTo(MergeOrderEvents, MaxOrders)
    /\ holding = <<>>
    /\ merchant_id_mapping = MerchantNames
    /\ revenue = Touch(Revenue(buyOffer), MerchantIds, 0)
    /\ holding_cost = Touch(EmptyDict, MerchantIds, 0)
    /\ order_cost = Touch(OrderCost(producer), MerchantIds, 0)
    /\ profit = Profit(merchant_id_mapping, revenue, holding_cost, order_cost)
    /\ results_csv = ResultRows(merchant_id_mapping, revenue, holding_cost, order_cost,
                                profit)
    /\ sales = <<>>
    /\ orders = <<>>
    /\ sale_index = 0
    /\ order_index = 0
    /\ inventory_progressions = EmptyDict
    /\ progression_keys = <<>>
    /\ emitted = <<>>
    /\ branch = "none"
    /\ inventory_levels = EmptyDict
    /\ inventory_svg = FALSE
    /\ prices_svg = FALSE

NextMerge ==
    \/ LoadInventoryInputs
    \/ MergeStep
    \/ PlotInventory

SpecMerge == InitMerge /\ [][NextMerge]_vars

\* ---------------------------------------------------------------- properties
RECURSIVE SumSeq(_)
SumSeq(q) == IF q = <<>> THEN 0 ELSE Head(q) + SumSeq(Tail(q))

OfMerchant(events, m) == SelectSeq(events, LAMBDA e : e.merchant_id = m)

TotalRevenue(m) ==
    LET es == OfMerchant(buyOffer, m)
    IN  SumSeq([i \in 1..Len(es) |-> es[i].amount * es[i].price])

TotalHoldingCost(m) ==
    LET es == OfMerchant(holding, m)
    IN  SumSeq([i \in 1..Len(es) |-> es[i].cost])

TotalOrderCost(m) ==
    LET es == OfMerchant(producer, m)
    IN  SumSeq([i \in 1..Len(es) |-> es[i].billing_amount])

AggregatedFiles == {"merchant_id_mapping.json", "buyOffer", "holding_cost", "producer"}

SummaryWritten == results_csv # NotWritten

\* The rows of results.csv that carry the display name of merchant m.
RowsOf(m) == {i \in 2..Len(results_csv) : results_csv[i][1] = MerchantNames[m]}

EmittedFrom(origin) == SelectSeq(emitted, LAMBDA r : r.origin = origin)

IndicesFrom(origin) ==
    LET q == EmittedFrom(origin) IN [i \in 1..Len(q) |-> q[i].index]

Iota(n) == [i \in 1..n |-> i]

TimestampSorted(events) ==
    \A i, j \in 1..Len(events) : i < j => events[i].timestamp <= events[j].timestamp

InputsSorted == TimestampSorted(sales) /\ TimestampSorted(orders)

\* C1: when create_inventory_graph has merged, every order and every
\* successful sale has been emitted, each origin in its original order, also
\* when one list is empty or runs out before the other.
MergeEmitsEveryRecord ==
    inventory_svg =>
        /\ IndicesFrom("order") = Iota(Len(orders))
        /\ IndicesFrom("sale") = Iota(Len(sales))

\* C2: with both inputs sorted by timestamp, the (timestamp, change) list of
\* every merchant is non-decreasing in timestamp at every step of the merge
\* and at its end.
ProgressionsChronological ==
    InputsSorted =>
        \A m \in DOMAIN inventory_progressions :
            \A i, j \in 1..Len(inventory_progressions[m]) :
                i < j => inventory_progressions[m][i][1] <= inventory_progressions[m][j][1]

ChronologicalWitness ==
    /\ inventory_svg
    /\ InputsSorted
    /\ \E m \in DOMAIN inventory_progressions :
         \E i, j \in 1..Len(inventory_progressions[m]) :
            /\ i < j
            /\ inventory_progressions[m][i][1] < inventory_progressions[m][j][1]
            /\ inventory_progressions[m][i][2] < 0
            /\ inventory_progressions[m][j][2] > 0

\* C3: with both inputs sorted, an order and a successful sale of the same
\* timestamp are both in the merge output, the order before the sale.
TieEmitsOrderBeforeSale ==
    (inventory_svg /\ InputsSorted) =>
        \A i \in 1..Len(orders), j \in 1..Len(sales) :
            orders[i].timestamp = sales[j].timestamp =>
                \E a, b \in 1..Len(emitted) :
                    /\ a < b
                    /\ emitted[a].origin = "order" /\ emitted[a].index = i
                    /\ emitted[b].origin = "sale" /\ emitted[b].index = j

\* C4: a buyOffer event whose http_code is not 200 adds no change to any
\* inventory progression, yet its amount * price is part of its merchant's
\* revenue; every producer event is merged and every producer and
\* holding_cost event is summed, whatever its outcome.
Unsuccessful(m) == SelectSeq(OfMerchant(buyOffer, m), LAMBDA e : ~Successful(e))

NegativeChanges(m) ==
    SelectSeq(DefaultGet(inventory_progressions, m, <<>>), LAMBDA c : c[2] < 0)

OutcomeFilterAsymmetry ==
    /\ \A k \in 1..Len(emitted) :
          emitted[k].origin = "sale" => sales[emitted[k].index].http_code = 200
    /\ \A m \in MerchantIds :
          Len(NegativeChanges(m)) + Len(Unsuccessful(m)) <= Len(OfMerchant(buyOffer, m))
    /\ "buyOffer" \in found =>
          \A m \in MerchantIds : DefaultGet(revenue, m, 0) = TotalRevenue(m)
    /\ "holding_cost" \in found =>
          \A m \in MerchantIds : DefaultGet(holding_cost, m, 0) = TotalHoldingCost(m)
    /\ "producer" \in found =>
          \A m \in MerchantIds : DefaultGet(order_cost, m, 0) = TotalOrderCost(m)
    /\ pc \in {"merge", "prices", "done"} => Len(orders) = Len(producer)

OutcomeFilterWitness ==
    /\ inventory_svg
    /\ \E m \in MerchantIds :
         /\ Len(Unsuccessful(m)) > 0
         /\ Len(NegativeChanges(m)) > 0
         /\ revenue[m] > SumSeq([i \in 1..Len(NegativeChanges(m)) |->
                                    3 * (0 - NegativeChanges(m)[i][2])])

\* C5: an order adds +amount and a successful sale -amount to its merchant's
\* progression; the plotted series of a merchant has the timestamps of the
\* merchant's progression and as k-th level the sum of its first k changes,
\* not clamped; after the merge every merchant with changes has a series.
SumFirst(progression, k) == SumSeq([i \in 1..k |-> progression[i][2]])

ChangesOf(m) ==
    LET q == SelectSeq(emitted, LAMBDA r : r.merchant_id = m)
    IN  [i \in 1..Len(q) |-> <<q[i].timestamp, q[i].delta>>]

LevelsArePrefixSums ==
    /\ \A k \in 1..Len(emitted) :
          /\ emitted[k].origin = "order" =>
                /\ emitted[k].delta = orders[emitted[k].index].amount
                /\ emitted[k].timestamp = orders[emitted[k].index].timestamp
                /\ emitted[k].merchant_id = orders[emitted[k].index].merchant_id
          /\ emitted[k].origin = "sale" =>
                /\ emitted[k].delta = 0 - sales[emitted[k].index].amount
                /\ emitted[k].timestamp = sales[emitted[k].index].timestamp
                /\ emitted[k].merchant_id = sales[emitted[k].index].merchant_id
    /\ \A m \in MerchantIds :
          DefaultGet(inventory_progressions, m, <<>>) = ChangesOf(m)
    /\ \A m \in DOMAIN inventory_levels :
          LET progression == inventory_progressions[m]
              series == inventory_levels[m]
          IN  /\ Len(series.dates) = Len(progression)
              /\ Len(series.levels) = Len(progression)
              /\ \A k \in 1..Len(progression) :
                    /\ series.dates[k] = progression[k][1]
                    /\ series.levels[k] = SumFirst(progression, k)
    /\ inventory_svg => DOMAIN inventory_levels = DOMAIN inventory_progressions

PrefixSumWitness ==
    /\ inventory_svg
    /\ \E m \in DOMAIN inventory_levels :
         /\ Len(inventory_levels[m].levels) >= 2
         /\ inventory_levels[m].levels[1] < 0
         /\ inventory_levels[m].levels[2] = inventory_levels[m].levels[1] + 2

\* C6: the profit of every merchant of the mapping, as computed and as
\* written to results.csv, is its revenue over all buyOffer events minus its
\* cost over all holding_cost events minus its billing_amount over all
\* producer events; no profit exists before the three aggregations are done.
ProfitIsRevenueMinusCosts ==
    /\ pc \in {"start", "revenue", "holding", "order", "profit"} => profit = EmptyDict
    /\ profit # EmptyDict =>
          /\ AggregatedFiles \subseteq found
          /\ DOMAIN profit = DOMAIN merchant_id_mapping
          /\ \A m \in DOMAIN merchant_id_mapping :
                profit[m] = TotalRevenue(m) - TotalHoldingCost(m) - TotalOrderCost(m)
    /\ SummaryWritten =>
          \A m \in DOMAIN merchant_id_mapping :
             \E i \in RowsOf(m) :
                /\ results_csv[i][2] = TotalRevenue(m)
                /\ results_csv[i][3] = TotalHoldingCost(m)
                /\ results_csv[i][4] = TotalOrderCost(m)
                /\ results_csv[i][5] =
                      TotalRevenue(m) - TotalHoldingCost(m) - TotalOrderCost(m)

ProfitWitness ==
    /\ SummaryWritten
    /\ \E m \in DOMAIN merchant_id_mapping :
         /\ Len(OfMerchant(buyOffer, m)) = 2
         /\ TotalHoldingCost(m) > 0
         /\ TotalOrderCost(m) > 0
         /\ profit[m] < 0

\* C7: results.csv has the header and exactly one row per merchant of the
\* mapping; a merchant without events in a category has 0 there, one
\* without any event has 0 everywhere, and no lookup of a missing key ends
\* the run before the summary is written.
NoEvents(events, m) == Len(OfMerchant(events, m)) = 0

SummaryCompleteWithZeros ==
    /\ SummaryWritten =>
          /\ results_csv[1] = Header
          /\ Len(results_csv) = 1 + Cardinality(DOMAIN merchant_id_mapping)
          /\ \A m \in DOMAIN merchant_id_mapping :
                /\ Cardinality(RowsOf(m)) = 1
                /\ \A i \in RowsOf(m) :
                      /\ NoEvents(buyOffer, m) => results_csv[i][2] = 0
                      /\ NoEvents(holding, m) => results_csv[i][3] = 0
                      /\ NoEvents(producer, m) => results_csv[i][4] = 0
                      /\ (NoEvents(buyOffer, m) /\ NoEvents(holding, m)
                            /\ NoEvents(producer, m)) => results_csv[i][5] = 0
    /\ (pc = "failed" /\ AggregatedFiles \subseteq found) => SummaryWritten

SummaryZeroWitness ==
    /\ SummaryWritten
    /\ DOMAIN merchant_id_mapping = MerchantIds
    /\ NoEvents(buyOffer, "m2") /\ NoEvents(holding, "m2") /\ NoEvents(producer, "m2")
    /\ ~NoEvents(buyOffer, "m1")

\* C8: the events of a merchant that is not in the mapping are summed under
\* its id and end no aggregation; results.csv has no row for it, and the
\* rows are those of the same dump without that merchant's events.
Unknown == IF "merchant_id_mapping.json" \in found
           THEN MerchantIds \ DOMAIN merchant_id_mapping ELSE {}

Known(events) == SelectSeq(events, LAMBDA e : e.merchant_id \notin Unknown)

UnknownEntitySummedNotReported ==
    \A u \in Unknown :
        /\ ("buyOffer" \in found /\ ~NoEvents(buyOffer, u)) =>
              u \in DOMAIN revenue /\ revenue[u] = TotalRevenue(u)
        /\ ("holding_cost" \in found /\ ~NoEvents(holding, u)) =>
              u \in DOMAIN holding_cost /\ holding_cost[u] = TotalHoldingCost(u)
        /\ ("producer" \in found /\ ~NoEvents(producer, u)) =>
              u \in DOMAIN order_cost /\ order_cost[u] = TotalOrderCost(u)
        /\ (pc = "failed" /\ results_csv = NotWritten) => ~(AggregatedFiles \subseteq found)
        /\ SummaryWritten =>
              /\ RowsOf(u) = {}
              /\ u \notin DOMAIN profit
              /\ results_csv =
                    LET rev == Revenue(Known(buyOffer))
                        hold == HoldingCost(Known(holding))
                        ord == OrderCost(Known(producer))
                    IN  ResultRows(merchant_id_mapping, rev, hold, ord,
                                   Profit(merchant_id_mapping, rev, hold, ord))

UnknownEntityWitness ==
    /\ SummaryWritten
    /\ "m2" \in Unknown
    /\ Len(buyOffer) = 2
    /\ buyOffer[1].merchant_id = "m2" /\ buyOffer[2].merchant_id = "m1"
    /\ ~NoEvents(holding, "m2")
    /\ ~NoEvents(producer, "m2")

\* C9: results.csv is written only when the mapping and the three
\* aggregations were read and the profit is computed; a failure before that
\* leaves no artifact; the charts are saved only after results.csv is
\* written, and a failure of a chart step leaves results.csv as written.
ArtifactOrdering ==
    /\ SummaryWritten =>
          /\ AggregatedFiles \subseteq found
          /\ profit = Profit(merchant_id_mapping, revenue, holding_cost, order_cost)
          /\ results_csv = ResultRows(merchant_id_mapping, revenue, holding_cost,
                                      order_cost, profit)
          /\ pc \in {"inventory", "merge", "prices", "done", "failed"}
    /\ (inventory_svg \/ prices_svg) => SummaryWritten
    /\ pc \in {"start", "revenue", "holding", "order", "profit", "write"} =>
          ~SummaryWritten /\ ~inventory_svg /\ ~prices_svg
    /\ (pc = "failed" /\ ~(AggregatedFiles \subseteq found)) =>
          ~SummaryWritten /\ ~inventory_svg /\ ~prices_svg
    /\ (pc = "failed" /\ AggregatedFiles \subseteq found) => SummaryWritten

ChartFailureWitness ==
    /\ pc = "failed"
    /\ SummaryWritten
    /\ inventory_svg
    /\ ~prices_svg

\* C10: every iteration of the merge loop appends one record and advances
\* exactly one of sale_index and order_index by one; the records appended are
\* the first order_index orders and the first sale_index successful sales,
\* each once and in order, so there are at most len(sales) + len(orders)
\* iterations; the branches for an exhausted list are never taken.
MergeLoopInv ==
    /\ sale_index \in 0..Len(sales)
    /\ order_index \in 0..Len(orders)
    /\ Len(emitted) = sale_index + order_index
    /\ IndicesFrom("order") = Iota(order_index)
    /\ IndicesFrom("sale") = Iota(sale_index)
    /\ branch \in {"none", "order_first", "sale_first"}

MergeIteration ==
    (pc = "merge" /\ pc' = "merge") =>
        /\ Len(emitted') = Len(emitted) + 1
        /\ \/ sale_index' = sale_index + 1 /\ order_index' = order_index
           \/ sale_index' = sale_index /\ order_index' = order_index + 1

MergeLoopAdvances == []MergeLoopInv /\ [][MergeIteration]_vars

MergeLoopWitness ==
    /\ pc = "merge"
    /\ sale_index = 1
    /\ order_index = 1
    /\ Len(sales) = 2
    /\ Len(orders) = 2

====
